---------------------------- MODULE Spec2Model ----------------------------
(***************************************************************************)
(* A model of the pytrafficflow traffic dynamics engine:                   *)
(*   - ParticleTrafficModel (pytrafficflow/models/particle.py),            *)
(*   - Vehicle, IDMModel and Road (data/synthetic/one_road.py),            *)
(*   - VelocityFunction.__init__ (core/velocity.py).                       *)
(*                                                                         *)
(* Python's floats are modelled as exact numbers, so the arithmetic of     *)
(* the code is computed as written, without rounding: rationals            *)
(* <<numerator, denominator>> in lowest terms with a positive denominator  *)
(* for the particle model and the velocity function, and numbers           *)
(* (p + q * sqrt(6)) / d for the IDM code, whose np.sqrt(a_max *           *)
(* b_comfort) is sqrt(1.5) = sqrt(6) / 2 for the Vehicle defaults.  The    *)
(* arguments passed to the code are chosen so that no comparison of the    *)
(* code depends on the rounding of a float.                                *)
(* Python lists are 0-based; the sequences here are 1-based, so the car    *)
(* at Python index i is cars[i + 1].                                       *)
(*                                                                         *)
(* The IDM acceleration raises speeds to the fourth power, so the          *)
(* numerators and denominators of the exact values grow with every update; *)
(* MaxUpdates keeps them within the integers of the model checker.         *)
(***************************************************************************)
EXTENDS Integers, Sequences, FiniteSets, TLC

VARIABLES
    \* ParticleTrafficModel
    L, vmax, dmin, dt,      \* constructor parameters (self.L, self.vmax, ...)
    cars,                   \* self.cars: sequence of [x, v]
    time,                   \* self.time
    outcome,                \* how the last call on the particle model ended
    \* Road (IDM)
    length,                 \* Road.length
    last_dt,                \* the dt of the latest Road.update call (0: none yet)
    vehicles,               \* Road.vehicles: sequence of Vehicle records
    nupdates,               \* number of Road.update calls so far
    road_outcome,           \* how the last call on the Road ended
    \* VelocityFunction
    vf,                     \* the constructed object, or NoObject
    vf_outcome              \* how the last construction ended

particleVars == <<L, vmax, dmin, dt, cars, time, outcome>>
roadVars == <<length, last_dt, vehicles, nupdates, road_outcome>>
velocityVars == <<vf, vf_outcome>>
vars == <<L, vmax, dmin, dt, cars, time, outcome,
          length, last_dt, vehicles, nupdates, road_outcome,
          vf, vf_outcome>>

---------------------------------------------------------------------------
(* Bounds of the model. *)

MaxCars == 3        \* cars added to one particle model
MaxPos == 3         \* add_car positions are 0..MaxPos
MaxTime == 3        \* step is taken while time < MaxTime
MaxVehicles == 3    \* vehicles added to one Road
MaxUpdates == 1     \* Road.update calls in one run

---------------------------------------------------------------------------
(* Exact rational arithmetic standing for Python's float arithmetic. *)

Abs(n) == IF n < 0 THEN -n ELSE n

RECURSIVE GCD(_, _)
GCD(a, b) == IF b = 0 THEN a ELSE GCD(b, a % b)

Rat(n, d) ==
    LET s == IF d < 0 THEN -1 ELSE 1
        g == GCD(Abs(n), Abs(d))
    IN  <<(s * n) \div g, (s * d) \div g>>

R(n) == <<n, 1>>
Zero == <<0, 1>>
One == <<1, 1>>
Half == <<1, 2>>

RAdd(p, q) == Rat(p[1] * q[2] + q[1] * p[2], p[2] * q[2])
RSub(p, q) == Rat(p[1] * q[2] - q[1] * p[2], p[2] * q[2])
RMul(p, q) == Rat(p[1] * q[1], p[2] * q[2])
RDiv(p, q) == Rat(p[1] * q[2], p[2] * q[1])     \* q # Zero
RLt(p, q) == p[1] * q[2] < q[1] * p[2]
RLe(p, q) == p[1] * q[2] <= q[1] * p[2]

RECURSIVE RPow(_, _)
RPow(p, k) == IF k = 0 THEN One ELSE RMul(p, RPow(p, k - 1))

\* Python's max(a, b) and min(a, b): the first argument unless the second
\* is strictly larger (smaller).
PyMax(a, b) == IF RLt(a, b) THEN b ELSE a
PyMin(a, b) == IF RLt(b, a) THEN b ELSE a

\* The numbers of the IDM code: (p + q * sqrt(Radicand)) / d as <<p, q, d>>,
\* with d > 0 and no common factor of p, q and d.
Radicand == 6

Surd(p, q, d) ==
    LET s == IF d < 0 THEN -1 ELSE 1
        g == GCD(GCD(Abs(p), Abs(q)), Abs(d))
    IN  <<(s * p) \div g, (s * q) \div g, (s * d) \div g>>

N(n) == <<n, 0, 1>>
Num(r) == <<r[1], 0, r[2]>>     \* the rational r
SZero == <<0, 0, 1>>
SOne == <<1, 0, 1>>
SHalf == <<1, 0, 2>>

SAdd(x, y) ==
    LET g == GCD(x[3], y[3])
        a == y[3] \div g
        b == x[3] \div g
    IN  Surd(x[1] * a + y[1] * b, x[2] * a + y[2] * b, x[3] * a)
SSub(x, y) == SAdd(x, <<-y[1], -y[2], y[3]>>)
SMul(x, y) ==
    Surd(x[1] * y[1] + Radicand * x[2] * y[2],
         x[1] * y[2] + x[2] * y[1],
         x[3] * y[3])
\* x / y for y # SZero: x times the conjugate of y over its norm.
SDiv(x, y) ==
    SMul(x, Surd(y[3] * y[1], -(y[3] * y[2]),
                 y[1] * y[1] - Radicand * y[2] * y[2]))

\* The sign of x: -1, 0 or 1.  When p and q differ in sign, p + q * sqrt(6)
\* has the sign of p if p^2 > 6 * q^2 and that of q otherwise; 2 < sqrt(6)
\* < 5/2 settles the cases far from the boundary without the squares.
SSign(x) ==
    LET p == x[1]
        q == x[2]
    IN  IF p = 0 /\ q = 0 THEN 0
        ELSE IF p >= 0 /\ q >= 0 THEN 1
        ELSE IF p <= 0 /\ q <= 0 THEN -1
        ELSE IF 2 * Abs(p) >= 5 * Abs(q) THEN (IF p > 0 THEN 1 ELSE -1)
        ELSE IF Abs(p) <= 2 * Abs(q) THEN (IF q > 0 THEN 1 ELSE -1)
        ELSE IF p * p > Radicand * q * q THEN (IF p > 0 THEN 1 ELSE -1)
        ELSE (IF q > 0 THEN 1 ELSE -1)

SLt(x, y) == SSign(SSub(y, x)) = 1
SLe(x, y) == SSign(SSub(y, x)) >= 0

RECURSIVE SPow(_, _)
SPow(x, k) == IF k = 0 THEN SOne ELSE SMul(x, SPow(x, k - 1))

\* Python's max(a, b) on these numbers.
SMax(a, b) == IF SLt(a, b) THEN b ELSE a

---------------------------------------------------------------------------
(* ParticleTrafficModel *)

ParticleCar(position, velocity) == [x |-> position, v |-> velocity]

\* list.sort(key=lambda c: c.x, reverse=True): a stable sort, so cars with
\* equal x keep their relative order.  InsertDesc places c after every
\* element whose key is >= c.x, which is where a stable descending sort
\* leaves an element that was behind them.
RECURSIVE InsertDesc(_, _)
InsertDesc(s, c) ==
    IF s = <<>> THEN <<c>>
    ELSE IF RLt(Head(s).x, c.x) THEN <<c>> \o s
    ELSE <<Head(s)>> \o InsertDesc(Tail(s), c)

RECURSIVE SortDesc(_)
SortDesc(s) ==
    IF s = <<>> THEN <<>>
    ELSE InsertDesc(SortDesc(SubSeq(s, 1, Len(s) - 1)), s[Len(s)])

\* A plausible slip: the car is appended and the list is left as it is.
AppendOnly(cs, position, velocity) ==
    Append(cs, ParticleCar(position, velocity))

\* The list after add_car(position, velocity).
AddCarList(cs, position, velocity) ==
    SortDesc(Append(cs, ParticleCar(position, velocity)))

add_car(position, velocity) ==
    /\ Len(cars) < MaxCars
    /\ cars' = AddCarList(cars, position, velocity)
    /\ outcome' = "add_car"
    /\ UNCHANGED <<L, vmax, dmin, dt, time>>
    /\ UNCHANGED <<roadVars, velocityVars>>

\* compute_velocity_simple(car_idx) on the list cs, with idx = car_idx + 1.
\* The division by self.dt raises ZeroDivisionError when dt = 0; the caller
\* below tests that before using the value.
compute_velocity_simple(cs, idx) ==
    IF idx = 1 THEN vmax
    ELSE LET car == cs[idx]
             front_car == cs[idx - 1]
         IN  PyMax(Zero,
                   PyMin(RDiv(RAdd(RSub(RSub(front_car.x, car.x), dmin),
                                   RMul(front_car.v, dt)),
                              dt),
                         vmax))

Raises(cs, idx) == idx > 1 /\ dt = Zero

\* A plausible refactoring: every velocity is computed from the list as it
\* was when the loop started, and assigned afterwards.
UpdateVelocitiesFromSnapshot(cs, i) ==
    IF \E k \in i..Len(cs) : Raises(cs, k)
    THEN [cars |-> cs, err |-> "ZeroDivisionError"]
    ELSE [cars |-> [k \in 1..Len(cs) |->
                       IF k < i THEN cs[k]
                       ELSE [cs[k] EXCEPT !.v = compute_velocity_simple(cs, k)]],
          err |-> "ok"]

\* The first loop of step, from index i on: car.v is assigned in place, so
\* the car at i + 1 reads the velocity just written to the car at i.  The
\* loop stops at the first index whose computation raises.
RECURSIVE UpdateVelocities(_, _)
UpdateVelocities(cs, i) ==
    IF i > Len(cs) THEN [cars |-> cs, err |-> "ok"]
    ELSE IF Raises(cs, i) THEN [cars |-> cs, err |-> "ZeroDivisionError"]
    ELSE UpdateVelocities(
             [cs EXCEPT ![i].v = compute_velocity_simple(cs, i)], i + 1)

\* The second loop of step: car.x += car.v * self.dt.
UpdatePositions(cs) ==
    [k \in 1..Len(cs) |-> [cs[k] EXCEPT !.x = RAdd(cs[k].x, RMul(cs[k].v, dt))]]

\* A plausible slip: a car standing exactly at L is dropped too.
RemoveAtOrBeyond(cs) == LET keep(c) == RLt(c.x, L) IN SelectSeq(cs, keep)

\* [c for c in self.cars if c.x <= self.L]
RemoveExited(cs) == LET keep(c) == RLe(c.x, L) IN SelectSeq(cs, keep)

\* step(); the first conjunct bounds the clock of the model.
step ==
    /\ RLt(time, R(MaxTime))
    /\ LET r == UpdateVelocities(cars, 1)
       IN  IF r.err = "ok"
           THEN /\ cars' = RemoveExited(UpdatePositions(r.cars))
                /\ time' = RAdd(time, dt)
                /\ outcome' = "step"
           ELSE \* the exception leaves step after the assignments made so far
                /\ cars' = r.cars
                /\ time' = time
                /\ outcome' = r.err
    /\ UNCHANGED <<L, vmax, dmin, dt>>
    /\ UNCHANGED <<roadVars, velocityVars>>

\* The arguments the caller passes: the constructor's L, vmax, dmin and dt
\* (dt = 0 is accepted by the constructor), and add_car's position and
\* velocity.  A car may be added beyond L.
RoadLengths == {R(MaxPos - 1), R(MaxPos)}
MaxSpeeds == {Zero, One, R(2)}
MinDistances == {Zero, One}
TimeSteps == {Zero, Half, One}
CarPositions == {R(n) : n \in 0..MaxPos}
CarVelocities == {Zero, R(2)}

\* ParticleTrafficModel(L, vmax, dmin, lcar, dt)
InitParticle ==
    /\ L \in RoadLengths
    /\ vmax \in MaxSpeeds
    /\ dmin \in MinDistances
    /\ dt \in TimeSteps
    /\ cars = <<>>
    /\ time = Zero
    /\ outcome = "constructed"

NextParticle ==
    \/ \E position \in CarPositions, velocity \in CarVelocities :
           add_car(position, velocity)
    \/ step

---------------------------------------------------------------------------
(* Vehicle, IDMModel, Road *)

DefaultLength == 5
TruckLength == 15
DefaultVDesired == 30
TruckVDesired == 25
DefaultS0 == 2
DefaultAMax == 1
Delta == 4
DefaultT == <<3, 2>>            \* T: float = 1.5
DefaultBComfort == <<3, 2>>     \* b_comfort: float = 1.5
Epsilon == <<1, 10>>            \* the 0.1 of max(s, 0.1)

\* Vehicle(id, position, speed, lane, v_desired=..., is_truck=...) after
\* __post_init__; the other fields keep their defaults.
Vehicle(id, position, speed, lane, v_desired, is_truck) ==
    [id |-> id, position |-> position, speed |-> speed, lane |-> lane,
     length |-> IF is_truck THEN N(TruckLength) ELSE N(DefaultLength),
     v_desired |-> IF is_truck THEN N(TruckVDesired) ELSE v_desired,
     T |-> Num(DefaultT), s0 |-> N(DefaultS0), a_max |-> N(DefaultAMax),
     b_comfort |-> Num(DefaultBComfort), is_truck |-> is_truck]

\* An Optional[Vehicle] is a sequence: <<>> for None, <<v>> for a vehicle.

\* veh.speed / veh.v_desired raises ZeroDivisionError when v_desired is 0
\* (speed and v_desired are the Python numbers the caller passed).
AccelerationRaises(veh) == veh.v_desired = SZero

\* IDMModel.calc_acceleration(veh, leader), for v_desired # 0.  root is
\* np.sqrt(veh.a_max * veh.b_comfort): the product is a rational n / d, and
\* its root is k / d when n * d = k^2 and k * sqrt(6) / d when n * d = 6 * k^2
\* (sqrt(6) / 2 for the defaults 1.0 and 1.5).
calc_acceleration(veh, leader) ==
    LET free == SPow(SDiv(veh.speed, veh.v_desired), Delta)
    IN  IF leader = <<>>
        THEN SMul(veh.a_max, SSub(SOne, free))
        ELSE LET ldr == leader[1]
                 s == SSub(SSub(ldr.position, veh.position), ldr.length)
                 dv == SSub(veh.speed, ldr.speed)
                 ab == SMul(veh.a_max, veh.b_comfort)
                 nd == ab[1] * ab[3]
                 root ==
                     IF \E k \in 0..nd : k * k = nd
                     THEN Surd(CHOOSE k \in 0..nd : k * k = nd, 0, ab[3])
                     ELSE Surd(0, CHOOSE k \in 0..nd : Radicand * k * k = nd,
                               ab[3])
                 s_star ==
                     SAdd(veh.s0,
                          SMax(SZero,
                               SAdd(SMul(veh.speed, veh.T),
                                    SDiv(SMul(veh.speed, dv),
                                         SMul(N(2), root)))))
             IN  SMul(veh.a_max,
                      SSub(SSub(SOne, free),
                           SPow(SDiv(s_star, SMax(s, Num(Epsilon))), 2)))

add_vehicle(vehicle) ==
    /\ Len(vehicles) < MaxVehicles
    /\ vehicles' = Append(vehicles, vehicle)
    /\ road_outcome' = "add_vehicle"
    /\ UNCHANGED <<length, last_dt, nupdates>>
    /\ UNCHANGED <<particleVars, velocityVars>>

\* Road.get_leader(vehicle) on the list vs.  min(ahead, key=...) returns the
\* first of the vehicles of smallest position, in list order.
get_leader(vs, vehicle) ==
    LET ahead == {k \in 1..Len(vs) :
                     /\ vs[k].lane = vehicle.lane
                     /\ vs[k].id # vehicle.id
                     /\ SLt(vehicle.position, vs[k].position)}
        nearest == {k \in ahead :
                       \A j \in ahead : SLe(vs[k].position, vs[j].position)}
    IN  IF ahead = {} THEN <<>>
        ELSE <<vs[CHOOSE k \in nearest : \A j \in nearest : k <= j]>>

\* accelerations[veh_id] after the first loop of update: the dictionary
\* keeps the value written last for a key.
Acceleration(vs, veh_id) ==
    LET last == CHOOSE k \in 1..Len(vs) :
                    /\ vs[k].id = veh_id
                    /\ \A j \in 1..Len(vs) : vs[j].id = veh_id => j <= k
    IN  calc_acceleration(vs[last], get_leader(vs, vs[last]))

\* veh.speed = max(0, veh.speed + acc * dt)
NewSpeed(veh, acc, d) == SMax(SZero, SAdd(veh.speed, SMul(acc, d)))

\* veh.position += veh.speed * dt + 0.5 * acc * dt ** 2, evaluated after the
\* assignment to veh.speed: the speed read here is the new one.
Advance(veh, acc, d) ==
    SAdd(veh.position,
         SAdd(SMul(NewSpeed(veh, acc, d), d),
              SMul(SMul(SHalf, acc), SPow(d, 2))))

\* The periodic boundary: one subtraction or one addition of the length.
Wrap(position) ==
    IF SLt(length, position) THEN SSub(position, length)
    ELSE IF SLt(position, SZero) THEN SAdd(position, length)
    ELSE position

\* Road.update(dt) on the list vs: the resulting list, and how the call ended.
\* Every acceleration is computed before any vehicle is written, so a raise
\* in the first loop leaves the list as it was.
UpdateResult(vs, d) ==
    IF \E k \in 1..Len(vs) : AccelerationRaises(vs[k])
    THEN [vehicles |-> vs, err |-> "ZeroDivisionError"]
    ELSE [vehicles |->
             [k \in 1..Len(vs) |->
                 LET acc == Acceleration(vs, vs[k].id)
                 IN  [vs[k] EXCEPT !.speed = NewSpeed(vs[k], acc, d),
                                   !.position = Wrap(Advance(vs[k], acc, d))]],
          err |-> "ok"]

\* update(dt) with dt = d; the first conjunct bounds the number of updates.
update(d) ==
    /\ nupdates < MaxUpdates
    /\ last_dt' = d
    /\ LET r == UpdateResult(vehicles, d)
       IN  /\ vehicles' = r.vehicles
           /\ road_outcome' = IF r.err = "ok" THEN "update" ELSE r.err
    /\ nupdates' = nupdates + 1
    /\ UNCHANGED length
    /\ UNCHANGED <<particleVars, velocityVars>>

\* The arguments the caller passes: the Road's length, the dt of update,
\* and the fields of the vehicles it adds.
RoadLength == N(60)
StepSizes == {SHalf, SOne}
VehicleIds == 0..(MaxVehicles - 1)
VehiclePositions == {SZero, N(30)}
VehicleSpeeds == {SZero, N(30)}
Lanes == {0, 1}
DesiredSpeeds == {SZero, N(DefaultVDesired)}

\* Road(length)
InitRoad ==
    /\ length = RoadLength
    /\ last_dt = SZero
    /\ vehicles = <<>>
    /\ nupdates = 0
    /\ road_outcome = "constructed"

NextRoad ==
    \/ \E id \in VehicleIds, position \in VehiclePositions,
          speed \in VehicleSpeeds, lane \in Lanes,
          v_desired \in DesiredSpeeds, is_truck \in BOOLEAN :
           add_vehicle(Vehicle(id, position, speed, lane, v_desired, is_truck))
    \/ \E d \in StepSizes : update(d)

---------------------------------------------------------------------------
(* VelocityFunction.__init__ *)

NoObject == [constructed |-> FALSE]
DefaultRhoC == <<7, 40>>    \* self.rho_c = 0.175

\* The class of np.log(x): nan for x < 0, -inf for x = 0, and otherwise a
\* finite number of known sign.
LogClass(x) ==
    IF RLt(x, Zero) THEN "nan"
    ELSE IF x = Zero THEN "-inf"
    ELSE IF RLt(x, One) THEN "neg"
    ELSE IF x = One THEN "zero"
    ELSE "pos"

\* The class of a / b for numpy floats of the classes a and b; numpy
\* warns and returns inf or nan where Python's own floats would raise.
QuotientClass(a, b) ==
    IF a = "nan" \/ b = "nan" THEN "nan"
    ELSE IF a = "-inf" THEN (IF b = "-inf" THEN "nan" ELSE "inf")
    ELSE IF b = "-inf" THEN "finite"
    ELSE IF b = "zero" THEN (IF a = "zero" THEN "nan" ELSE "inf")
    ELSE "finite"

\* The argument of the second logarithm of the K3 line.
LogArgument(K2, rho_c, rho_max) ==
    RSub(RPow(RDiv(One, rho_c), K2), RPow(RDiv(One, rho_max), K2))

\* Python's own divisions and negative powers raise ZeroDivisionError:
\* lcar / (lcar + dmin), vmax / K1, rho_c ** (-K2), rho_max ** (-K2).
InitRaises(v_max, d_min, lcar, K1, rho_c) ==
    \/ RAdd(lcar, d_min) = Zero
    \/ K1 = Zero
    \/ rho_c = Zero
    \/ lcar = Zero

\* VelocityFunction(vmax, dmin, lcar, K1, K2, rho_c); rho_c is <<>> for None.
VelocityFunction(v_max, d_min, lcar, K1, K2, rho_c_arg) ==
    LET rho_c == IF rho_c_arg # <<>> THEN rho_c_arg[1] ELSE DefaultRhoC
    IN  /\ IF InitRaises(v_max, d_min, lcar, K1, rho_c)
           THEN /\ vf' = NoObject
                /\ vf_outcome' = "ZeroDivisionError"
           ELSE LET rho_max == RDiv(lcar, RAdd(lcar, d_min))
                IN  /\ vf' = [constructed |-> TRUE, vmax |-> v_max,
                              dmin |-> d_min, lcar |-> lcar, K1 |-> K1,
                              K2 |-> K2, rho_max |-> rho_max, rho_c |-> rho_c,
                              K3 |-> QuotientClass(
                                         LogClass(RDiv(v_max, K1)),
                                         LogClass(LogArgument(K2, rho_c,
                                                              rho_max)))]
                    /\ vf_outcome' = "ok"
        /\ UNCHANGED <<particleVars, roadVars>>

\* The arguments the caller passes to the constructor.  The lengths and
\* densities are binary fractions, which a float holds exactly: rho_max is
\* 1, 1/2 or 1/4 in the code as it is here, and rho_c = rho_max in the code
\* exactly when it is so here.
VfMaxSpeeds == {R(80), R(100), R(120)}
VfMinDistances == {Zero, <<1, 4>>, <<3, 4>>}
VfCarLengths == {Zero, <<1, 4>>}
VfK1 == {Zero, R(80), R(100)}
VfK2 == {1, 2}
VfRhoC == {<<>>, <<Zero>>, <<(<<1, 8>>)>>, <<(<<1, 4>>)>>, <<(<<1, 2>>)>>}

InitVelocity ==
    /\ vf = NoObject
    /\ vf_outcome = "none"

NextVelocity ==
    \E v_max \in VfMaxSpeeds, d_min \in VfMinDistances, lcar \in VfCarLengths,
       K1 \in VfK1, K2 \in VfK2, rho_c_arg \in VfRhoC :
        VelocityFunction(v_max, d_min, lcar, K1, K2, rho_c_arg)

---------------------------------------------------------------------------
(* Specifications: one per component; the other components stay as        *)
(* constructed.                                                            *)

\* The state of a component that the run does not use.
IdleParticle ==
    /\ L = Zero /\ vmax = Zero /\ dmin = Zero /\ dt = One
    /\ cars = <<>> /\ time = Zero /\ outcome = "absent"

IdleRoad ==
    /\ length = SZero /\ last_dt = SZero /\ vehicles = <<>>
    /\ nupdates = 0 /\ road_outcome = "absent"

ParticleInit == InitParticle /\ IdleRoad /\ InitVelocity
RoadInit == IdleParticle /\ InitRoad /\ InitVelocity
VelocityInit == IdleParticle /\ IdleRoad /\ InitVelocity

SpecParticle == ParticleInit /\ [][NextParticle]_vars
SpecRoad == RoadInit /\ [][NextRoad]_vars
SpecVelocity == VelocityInit /\ [][NextVelocity]_vars

---------------------------------------------------------------------------
(* Properties of ParticleTrafficModel, checked under SpecParticle.         *)

NonIncreasing(cs) == \A i \in 1..(Len(cs) - 1) : RLe(cs[i + 1].x, cs[i].x)
StrictlyDecreasing(cs) == \A i \in 1..(Len(cs) - 1) : RLt(cs[i + 1].x, cs[i].x)

\* clamp((x_front - x_own - dmin + v_front * dt) / dt, 0, vmax) on the values
\* the list cs holds for the car at idx and the car before it.
ClampedVelocity(cs, idx) ==
    LET raw == RDiv(RAdd(RSub(RSub(cs[idx - 1].x, cs[idx].x), dmin),
                         RMul(cs[idx - 1].v, dt)), dt)
    IN  IF RLt(raw, Zero) THEN Zero ELSE IF RLt(vmax, raw) THEN vmax ELSE raw

\* The list a step leaves when every car behind the first is given the
\* clamped velocity computed from the list cs as it was before the step (the
\* first car is given vmax), every car is moved by its velocity times dt, and
\* the cars beyond L are dropped.
SnapshotStep(cs) ==
    LET v(k) == IF k = 1 THEN vmax ELSE ClampedVelocity(cs, k)
        moved == [k \in 1..Len(cs) |->
                     [x |-> RAdd(cs[k].x, RMul(v(k), dt)), v |-> v(k)]]
        keep(c) == RLe(c.x, L)
    IN  SelectSeq(moved, keep)

\* C1: in every step that returns, each car behind the first is assigned
\* the clamped velocity computed from the positions and the velocity that it
\* and the car before it held when the step began, so the step leaves the
\* list that those velocities give.
C1_VelocityFromPreStepSnapshot ==
    [][outcome' = "step" => cars' = SnapshotStep(cars)]_vars

\* C4 as stated: after add_car, adjacent cars are in strictly descending
\* order of position.
C4_StrictlyDescendingAfterAddCar ==
    outcome = "add_car" => StrictlyDecreasing(cars)

\* C4 as amended: after add_car, adjacent cars are in descending order of
\* position, equal positions allowed (cars[i].x >= cars[i+1].x), and the car
\* at index 0 has no leader: its computed velocity is vmax.
C4_DescendingAfterAddCar ==
    outcome = "add_car" =>
        /\ NonIncreasing(cars)
        /\ compute_velocity_simple(cars, 1) = vmax

\* add_car has just placed cars among which two share a position and one
\* stands strictly behind them.
C4_Witness ==
    /\ outcome = "add_car"
    /\ Len(cars) = 3
    /\ cars[1].x = cars[2].x
    /\ RLt(cars[3].x, cars[2].x)
    /\ cars[1].v # cars[2].v

\* C5: a call that raises leaves the positions, the velocities, the set of
\* vehicles and the clock as they were before the call, for
\* ParticleTrafficModel.step and for Road.update.
C5_RaisingStepChangesNothing ==
    [][/\ outcome' = "ZeroDivisionError" => (cars' = cars /\ time' = time)
       /\ road_outcome' = "ZeroDivisionError" => vehicles' = vehicles]_vars

\* The positions of the cars of cs after the move of a step that returns.
PostMove(cs) == UpdatePositions(UpdateVelocities(cs, 1).cars)

\* C9: a step that returns never adds a car, removes exactly the cars whose
\* position after the move is greater than L, keeps every car whose position
\* after the move is at most L, and advances the clock by dt.
C9_StepRemovesExactlyExitedCars ==
    [][outcome' = "step" =>
          LET moved == PostMove(cars)
              beyond == {k \in 1..Len(cars) : RLt(L, moved[k].x)}
              keep(c) == ~ RLt(L, c.x)
          IN  /\ Len(cars') <= Len(cars)
              /\ Len(cars') = Len(cars) - Cardinality(beyond)
              /\ cars' = SelectSeq(moved, keep)
              /\ time' = RAdd(time, dt)]_vars

\* A step has returned, and the next one moves the first car beyond L and
\* the second one to L exactly.
C9_Witness ==
    /\ outcome = "step"
    /\ RLt(time, R(MaxTime))
    /\ Len(cars) >= 2
    /\ UpdateVelocities(cars, 1).err = "ok"
    /\ RLt(L, PostMove(cars)[1].x)
    /\ PostMove(cars)[2].x = L

\* C10: with dt > 0, vmax >= 0 and dmin >= 0, a step that starts from a list
\* in non-increasing order of position leaves it in non-increasing order.
C10_StepPreservesOrder ==
    [][(/\ outcome' = "step"
        /\ RLt(Zero, dt) /\ RLe(Zero, vmax) /\ RLe(Zero, dmin)
        /\ NonIncreasing(cars)) => NonIncreasing(cars')]_vars

\* A step has returned that left a follower exactly dmin behind its leader,
\* driving at a velocity strictly between 0 and vmax, with a third car
\* behind it.
C10_Witness ==
    /\ outcome = "step"
    /\ RLt(Zero, dt)
    /\ Len(cars) = 3
    /\ RLt(Zero, cars[2].v) /\ RLt(cars[2].v, vmax)
    /\ cars[2].x = RSub(cars[1].x, dmin)
    /\ RLt(cars[3].x, cars[2].x)

---------------------------------------------------------------------------
(* Properties of Road, checked under SpecRoad.                             *)

DistinctIds(vs) ==
    \A i, j \in 1..Len(vs) : vs[i].id = vs[j].id => i = j

\* C2: an update that returns gives every vehicle the speed
\* max(0, speed + a * dt) and the position
\* position + speed * dt + 0.5 * a * dt^2 (then wrapped), where speed is the
\* speed before the update; a lone vehicle with speed 0, v_desired 30 and
\* a_max 1 updated with dt = 1 ends with speed 1, 0.5 further on.
C2_BallisticUpdate ==
    [][(road_outcome' = "update" /\ nupdates' = nupdates + 1) =>
          LET d == last_dt'
          IN  /\ \A k \in 1..Len(vehicles) :
                     LET veh == vehicles[k]
                         a == Acceleration(vehicles, veh.id)
                     IN  /\ vehicles'[k].speed =
                                SMax(SZero, SAdd(veh.speed, SMul(a, d)))
                         /\ vehicles'[k].position =
                                Wrap(SAdd(veh.position,
                                          SAdd(SMul(veh.speed, d),
                                               SMul(SMul(SHalf, a),
                                                    SPow(d, 2)))))
              /\ (/\ Len(vehicles) = 1 /\ d = SOne
                  /\ vehicles[1].speed = SZero
                  /\ vehicles[1].v_desired = N(DefaultVDesired)
                  /\ vehicles[1].a_max = SOne) =>
                     /\ vehicles'[1].speed = SOne
                     /\ vehicles'[1].position =
                            SAdd(vehicles[1].position, SHalf)
      ]_vars

\* C3: every vehicle's position is in [0, length) in every reachable state
\* (vehicles are added with a position in that range).
C3_PositionWithinRing ==
    \A k \in 1..Len(vehicles) :
        /\ SLe(SZero, vehicles[k].position)
        /\ SLt(vehicles[k].position, length)

\* C6: the ids of the vehicles on the Road are pairwise distinct.
C6_VehicleIdsAreDistinct == DistinctIds(vehicles)

Permute(vs, p) == [k \in 1..Len(vs) |-> vs[p[k]]]
Range(f) == {f[k] : k \in DOMAIN f}

\* C8: for a Road whose vehicles have distinct ids, one update on any
\* permutation of the vehicle list ends the same way and leaves every
\* vehicle with the same speed and position.
C8_UpdateIsOrderIndependent ==
    (nupdates < MaxUpdates /\ DistinctIds(vehicles)) =>
        \A d \in StepSizes, p \in Permutations(1..Len(vehicles)) :
            LET r == UpdateResult(vehicles, d)
                q == UpdateResult(Permute(vehicles, p), d)
            IN  /\ q.err = r.err
                /\ Range(q.vehicles) = Range(r.vehicles)

---------------------------------------------------------------------------
(* Properties of VelocityFunction, checked under SpecVelocity.             *)

\* C7: no VelocityFunction is returned whose K3 logarithm has a non-positive
\* argument, in particular none with rho_c >= rho_max, and none whose K3 is
\* NaN or infinite.
C7_IllDefinedCurveIsRejected ==
    vf.constructed =>
        /\ RLt(vf.rho_c, vf.rho_max)
        /\ RLt(Zero, LogArgument(vf.K2, vf.rho_c, vf.rho_max))
        /\ vf.K3 = "finite"

=============================================================================
